---- MODULE Spec2Model ----
(***************************************************************************)
(* Turn-taking pipeline of the voice bot:                                  *)
(*   capture thread -> hand-off queue -> audio pump -> ConversationManager *)
(*   (debounce timers, response queue, sequential processor) ->            *)
(*   AudioManager (speak cycles, pending buffer, interrupt).               *)
(*                                                                         *)
(* One action is one run of a callback or of a coroutine between two       *)
(* points where it really suspends (an await that does not complete at     *)
(* once).  Texts are sequences of characters; the character 0 is a blank   *)
(* and a positive number k is the word recognised in the k-th capture.     *)
(***************************************************************************)
EXTENDS Integers, Sequences, FiniteSets, TLC

\* ----------------------------------------------------------------- bounds
NumUsers == 2
MaxFrags == 3
MaxBlocks == 2
MaxInterrupts == 1
MaxBargeIn == 4
MaxChunkBlocks == 4

Users == 1..NumUsers
FragIds == 1..MaxFrags
SPACE == 0

VARIABLES
  \* orchestrator (ThreadSafeDiscordBotService)
  voiceClient,        \* AudioManager._voice_client is set (join ran)
  audioQueue,         \* _audio_queue: sequence of [user, text]
  currentTextBlocks,  \* keys of _current_text_blocks
  captured,           \* number of _process_audio calls so far
  interrupts,         \* number of interrupt commands so far
  intWaiting,         \* interrupt commands suspended in interrupt_and_clear
  \* ConversationManager
  userBuffers,        \* _user_buffers
  userTimers,         \* _user_timers: "none" | "armed" | "fired" | "cancelled"
  deferred,           \* _schedule_timer calls handed to call_soon_threadsafe
                      \*   and not run yet, per speaker
  orphanTimers,       \* armed call_later handles that _user_timers no longer
                      \*   holds, per speaker
  finalizeTasks,      \* scheduled, not yet run, _finalize_phrase coroutines
  responseQueue,      \* _response_queue
  isProcessing,       \* _is_processing
  processingLock,     \* _processing_lock is held
  procPc,             \* _process_responses: "get" | "executor" | "speaking" | "stopped"
  curTurn,            \* the context being handled (<<>> when none)
  blockCount,         \* non-empty blocks the engine has produced for curTurn
  speakPhase,         \* what the running speak cycle is for: "block" | "fallback"
  \* AudioManager
  isSpeaking,         \* _is_speaking
  speakingLock,       \* _speaking_lock is held
  speechTask,         \* _current_speech_task: "none" | "created" | "playing"
                      \*   | "cancelling" | "done" | "cancelled"
  vcPlaying,          \* voice_client.is_playing()
  pendingAudio,       \* _pending_audio[u]['fragments'] (<<>> when no key)
  \* history (not read by any guard or assignment of program state)
  turnLog,            \* every ConversationTurn ever put on _response_queue
  handled,            \* turns for which on_response_start fired, in order
  completed,          \* number of on_response_complete calls that returned
  hooks,              \* hook calls of the turn handled last
  engineRaised,       \* the engine raised for the turn handled last
  streamEnded,        \* the engine's iterator was exhausted for the turn
                      \*   handled last
  adds,               \* raw fragments accepted by add_fragment since the
                      \*   speaker's buffer was last finalized
  tainted,            \* an add_fragment ran between a timer firing and its
                      \*   _finalize_phrase
  epoch,              \* number of times the speaker's timer has fired
  fragEpoch,          \* epoch[u] when the fragment reached add_fragment
  heldBack,           \* fragments the pump dequeued while is_speaking was
                      \*   true, in the speak cycle that has not fired
                      \*   on_speech_end yet
  queued,             \* fragments with a word put on the hand-off queue
  cleared,            \* fragments the interrupt command removed from the queue
  intLog,             \* one record per interrupt_and_clear call: the task and
                      \*   the device when it was called, and how it ended
  \* SmartTTSChunker
  minChunkSize,       \* min_chunk_size
  maxChunkSize,       \* max_chunk_size
  textBlocks,         \* the blocks handed to process_blocks
  blockPos,           \* index of the block the for loop takes next
  buffer,             \* buffer
  chunks,             \* the chunks yielded so far
  chunkerPc,          \* process_blocks: "idle" | "blocks" | "done"
  finalYielded,       \* the last chunk was yielded after the loop
  \* history of the add_fragment calls made from another thread
  raised,             \* fragments whose add_fragment call raised
  lost,               \* fragments appended to a list that _finalize_phrase
                      \*   had already read and then replaced
  \* the loop thread
  loopBusy,           \* the loop thread is inside next(stream_iterator): the
                      \*   engine's generator body runs on it
  \* a speak_streaming call whose on_speech_start hook may suspend
  speakPc,            \* "idle" | "hook" | "await"
  speakCalls,         \* speak_streaming calls made so far
  \* VertexAgentEngine
  enginePc,           \* chat_stream: "idle" | "send" | "stream" | "done"
  prompt,             \* the prompt of the call, as _get_fallback_response
                      \*   classifies it
  attempt,            \* the loop variable of chat_stream
  hasContent,         \* has_content of the attempt
  responses,          \* responses the attempt's stream has delivered
  yielded,            \* the blocks chat_stream has yielded in this call
  sends,              \* send_message calls of this call
  fallbackIndex,      \* fallback_index
  chats,              \* chat_stream calls made so far
  \* GoogleTTSEngine.stream
  streamPc,           \* the async generator: "idle" | "get" | "ended"
  workerPc,           \* the synthesis thread: "idle" | "running" | "done"
  produced,           \* audio chunks the synthesis has delivered
  callbacks,          \* put_nowait calls handed to the loop and not yet run
  ttsQueue,           \* the asyncio.Queue
  received,           \* the chunks the generator has yielded
  dropped             \* the items whose put_nowait raised QueueFull

progVars == <<deferred, orphanTimers, voiceClient, audioQueue, currentTextBlocks, captured, interrupts,
              intWaiting, userBuffers, userTimers, finalizeTasks, responseQueue,
              isProcessing, processingLock, procPc, curTurn, blockCount,
              speakPhase, isSpeaking, speakingLock, speechTask, vcPlaying,
              pendingAudio>>
histVars == <<turnLog, handled, completed, hooks, engineRaised, streamEnded, adds, tainted,
              epoch, fragEpoch, heldBack, queued, cleared, intLog>>
chunkerVars == <<minChunkSize, maxChunkSize, textBlocks, blockPos, buffer,
                 chunks, chunkerPc, finalYielded>>
callVars == <<raised, lost>>
speakVars == <<speakPc, speakCalls>>
engineVars == <<enginePc, prompt, attempt, hasContent, responses, yielded, sends,
                fallbackIndex, chats>>
streamVars == <<streamPc, workerPc, produced, callbacks, ttsQueue, received,
                dropped>>
vars == <<progVars, histVars, chunkerVars, callVars, loopBusy, speakVars, engineVars, streamVars>>

\* ------------------------------------------------------------ text helpers
\* str.strip(): drop the leading blanks
RECURSIVE LStrip(_)
LStrip(s) == IF s # <<>> /\ Head(s) = SPACE THEN LStrip(Tail(s)) ELSE s

\* str.strip(): drop the trailing blanks
RECURSIVE RStrip(_)
RStrip(s) ==
  IF s # <<>> /\ s[Len(s)] = SPACE THEN RStrip(SubSeq(s, 1, Len(s) - 1)) ELSE s

Strip(s) == RStrip(LStrip(s))

\* " ".join(fragments)
RECURSIVE JoinSp(_)
JoinSp(fs) ==
  IF fs = <<>> THEN <<>>
  ELSE IF Len(fs) = 1 THEN fs[1]
  ELSE fs[1] \o <<SPACE>> \o JoinSp(Tail(fs))

\* the words of a text, and of a list of texts
Tokens(s) == {s[i] : i \in DOMAIN s} \ {SPACE}
TokensOf(fs) == UNION {Tokens(fs[i]) : i \in DOMAIN fs}

\* the texts the recogniser can return for the k-th capture
FragTexts(k) == {<<k>>, <<SPACE, k, SPACE>>, <<SPACE>>, <<>>}

NoTurn == <<>>
Turn(u, phrase) == [user |-> u, text |-> phrase]

\* ------------------------------------------------- ConversationManager
\* add_fragment, lines 98-99: empty or whitespace-only text is ignored
Ignored(fragment) == Strip(fragment) = <<>>
\* a variant of add_fragment that stores the text as it came
AddFragmentBuffersAsIs(bufs, u, fragment) ==
  IF Ignored(fragment) THEN bufs
  ELSE [bufs EXCEPT ![u] = Append(@, fragment)]

\* add_fragment, lines 104-106: the buffers after the call
AddFragmentBuffers(bufs, u, fragment) ==
  IF Ignored(fragment) THEN bufs
  ELSE [bufs EXCEPT ![u] = Append(@, Strip(fragment))]

\* add_fragment, lines 109-110 and 125-133 with _schedule_timer: the previous
\* handle is cancelled and a new call_later handle is stored
AddFragmentTimers(timers, u, fragment) ==
  IF Ignored(fragment) THEN timers ELSE [timers EXCEPT ![u] = "armed"]

\* add_fragment for every speaker u whose calls[u] is not ignored (calls[u] is
\* <<>> for a speaker without a call); the speakers' buffers and timers are
\* independent, so the order of the calls does not matter
AddFragments(calls) ==
  /\ userBuffers' = [u \in Users |-> AddFragmentBuffers(userBuffers, u, calls[u])[u]]
  /\ userTimers' = [u \in Users |-> AddFragmentTimers(userTimers, u, calls[u])[u]]
  /\ adds' = [u \in Users |->
                IF Ignored(calls[u]) THEN adds[u] ELSE Append(adds[u], calls[u])]
  /\ tainted' = [u \in Users |->
                   IF Ignored(calls[u]) THEN tainted[u]
                   ELSE tainted[u] \/ finalizeTasks[u] > 0]
  /\ fragEpoch' = [k \in FragIds |->
                     IF \E u \in Users : k \in Tokens(calls[u])
                     THEN epoch[CHOOSE u \in Users : k \in Tokens(calls[u])]
                     ELSE fragEpoch[k]]

\* the call_later handle fires: _finalize_phrase_sync hands _finalize_phrase
\* to the loop with run_coroutine_threadsafe
TimerFires(u) ==
  /\ userTimers[u] = "armed"
  /\ userTimers' = [userTimers EXCEPT ![u] = "fired"]
  /\ finalizeTasks' = [finalizeTasks EXCEPT ![u] = @ + 1]
  /\ epoch' = [epoch EXCEPT ![u] = @ + 1]
  /\ UNCHANGED <<deferred, orphanTimers, voiceClient, audioQueue, currentTextBlocks, captured,
                 interrupts, intWaiting, userBuffers, responseQueue, isProcessing,
                 processingLock, procPc, curTurn, blockCount, speakPhase,
                 isSpeaking, speakingLock, speechTask, vcPlaying, pendingAudio>>
  /\ UNCHANGED <<turnLog, handled, completed, hooks, engineRaised, streamEnded, adds,
                 tainted, fragEpoch, heldBack, queued, cleared, intLog>>
  /\ UNCHANGED <<chunkerVars, callVars, loopBusy, speakVars, engineVars, streamVars>>

\* _finalize_phrase, line 161
Phrase(fragments) == Strip(JoinSp(fragments))

\* a variant of _finalize_phrase without the check of lines 158-159
AlwaysFinalizes(fragments) == FALSE

\* _finalize_phrase, lines 158-159: `if not fragments: return`
NothingToFinalize(fragments) == fragments = <<>>

\* _finalize_phrase
FinalizePhrase(u) ==
  /\ finalizeTasks[u] > 0
  /\ finalizeTasks' = [finalizeTasks EXCEPT ![u] = @ - 1]
  /\ IF NothingToFinalize(userBuffers[u])
     THEN UNCHANGED <<userBuffers, responseQueue, turnLog>>
     ELSE /\ userBuffers' = [userBuffers EXCEPT ![u] = <<>>]
          /\ responseQueue' = Append(responseQueue, Turn(u, Phrase(userBuffers[u])))
          /\ turnLog' = Append(turnLog, Turn(u, Phrase(userBuffers[u])))
  /\ adds' = [adds EXCEPT ![u] = <<>>]
  /\ tainted' = [tainted EXCEPT ![u] = FALSE]
  /\ UNCHANGED <<deferred, orphanTimers, voiceClient, audioQueue, currentTextBlocks, captured,
                 interrupts, intWaiting, userTimers, isProcessing, processingLock,
                 procPc, curTurn, blockCount, speakPhase, isSpeaking,
                 speakingLock, speechTask, vcPlaying, pendingAudio>>
  /\ UNCHANGED <<handled, completed, hooks, engineRaised, streamEnded, epoch, fragEpoch,
                 heldBack, queued, cleared, intLog>>
  /\ UNCHANGED <<chunkerVars, callVars, loopBusy, speakVars, engineVars, streamVars>>

\* ---------------------------------------------------------- orchestrator
\* the join command: the voice client is handed to the AudioManager and the
\* recognition sink starts calling _process_audio
Join ==
  /\ ~voiceClient
  /\ voiceClient' = TRUE
  /\ UNCHANGED <<deferred, orphanTimers, audioQueue, currentTextBlocks, captured, interrupts, intWaiting,
                 userBuffers, userTimers, finalizeTasks, responseQueue,
                 isProcessing, processingLock, procPc, curTurn, blockCount,
                 speakPhase, isSpeaking, speakingLock, speechTask, vcPlaying,
                 pendingAudio>>
  /\ UNCHANGED histVars
  /\ UNCHANGED <<chunkerVars, callVars, loopBusy, speakVars, engineVars, streamVars>>

\* _process_audio on the capture thread: a recognised text that is not empty
\* is put on the hand-off queue
ProcessAudioWithin(limit, u, text) ==
  /\ voiceClient
  /\ captured < limit
  /\ captured' = captured + 1
  /\ audioQueue' = IF text # <<>>
                   THEN Append(audioQueue, [user |-> u, text |-> text])
                   ELSE audioQueue
  /\ UNCHANGED <<deferred, orphanTimers, voiceClient, currentTextBlocks, interrupts, intWaiting,
                 userBuffers, userTimers, finalizeTasks, responseQueue,
                 isProcessing, processingLock, procPc, curTurn, blockCount,
                 speakPhase, isSpeaking, speakingLock, speechTask, vcPlaying,
                 pendingAudio>>
  /\ queued' = queued \cup Tokens(text)
  /\ UNCHANGED <<turnLog, handled, completed, hooks, engineRaised, streamEnded, adds,
                 tainted, epoch, fragEpoch, heldBack, cleared, intLog>>
  /\ UNCHANGED <<chunkerVars, callVars, loopBusy, speakVars, engineVars, streamVars>>

ProcessAudio(u, text) == ProcessAudioWithin(MaxFrags, u, text)

\* a variant of add_pending_audio that keeps only the newest fragment
AddPendingAudioOverwrites(pend, u, fragment) == [pend EXCEPT ![u] = <<fragment>>]
\* add_pending_audio: the text is stored as it came
AddPendingAudio(pend, u, fragment) == [pend EXCEPT ![u] = Append(@, fragment)]
\* a variant of the pump that forwards every fragment to add_fragment
RouteNever == FALSE

\* _process_audio_queue, lines 134-139: where a dequeued fragment goes
RouteToPending == isSpeaking

\* one turn of the pump loop that finds the queue non-empty
PumpStep ==
  /\ audioQueue # <<>>
  /\ LET item == Head(audioQueue) IN
       /\ audioQueue' = Tail(audioQueue)
       /\ IF RouteToPending
          THEN /\ pendingAudio' = AddPendingAudio(pendingAudio, item.user, item.text)
               /\ UNCHANGED <<userBuffers, userTimers, adds, tainted, fragEpoch>>
          ELSE /\ AddFragments([u \in Users |->
                                  IF u = item.user THEN item.text ELSE <<>>])
               /\ UNCHANGED pendingAudio
       /\ heldBack' = IF isSpeaking THEN heldBack \cup Tokens(item.text)
                                    ELSE heldBack
  /\ UNCHANGED <<deferred, orphanTimers, voiceClient, currentTextBlocks, captured, interrupts, intWaiting,
                 finalizeTasks, responseQueue, isProcessing, processingLock,
                 procPc, curTurn, blockCount, speakPhase, isSpeaking,
                 speakingLock, speechTask, vcPlaying>>
  /\ UNCHANGED <<turnLog, handled, completed, hooks, engineRaised, streamEnded, epoch,
                 queued, cleared, intLog>>
  /\ UNCHANGED <<chunkerVars, callVars, loopBusy, speakVars, engineVars, streamVars>>

\* _process_pending_audio, line 332: the text re-submitted for a speaker
CombinedText(fragments) == Strip(JoinSp(fragments))

\* get_pending_audio + _process_pending_audio: the pending buffers are emptied
\* and each speaker's fragments go to add_fragment as one text
ProcessPendingAudio ==
  /\ pendingAudio' = [u \in Users |-> <<>>]
  /\ AddFragments([u \in Users |-> CombinedText(pendingAudio[u])])

\* _handle_conversation's finally block with _on_response_complete
CompleteTurn(hk) ==
  /\ isProcessing' = FALSE
  /\ currentTextBlocks' = currentTextBlocks \ {curTurn.user}
  /\ ProcessPendingAudio
  /\ hooks' = Append(hk, "complete")
  /\ completed' = completed + 1
  /\ processingLock' = FALSE
  /\ curTurn' = NoTurn

\* speak_streaming up to the await of the new speech task (lines 110-137).
\* Lines 117-124 (cancel and await a previous task that is not done) never
\* apply: the only caller is the sequential processor, which has awaited the
\* previous task to its end (C12).
StartSpeak ==
  /\ speakingLock' = TRUE
  /\ vcPlaying' = FALSE
  /\ isSpeaking' = TRUE
  /\ speechTask' = "created"

\* what the engine's iterator does when it is asked for the next block with
\* content: it yields one, it is exhausted, or it raises (the call of
\* chat_stream itself raising is the same outcome)
Outcomes == {"block", "end", "raise"}
\* a variant of _process_streaming_response that logs the exception and
\* returns
Swallowed(outcome) == IF outcome = "raise" THEN "end" ELSE outcome

\* _process_streaming_response, lines 242-244: an exception of the engine is
\* logged and raised again, so _handle_conversation sees it
Reraised(outcome) == outcome

\* a variant of speak_streaming without the test of the voice client
VoiceClientAssumed == TRUE

\* speak_streaming, lines 106-108: without a voice client the call returns at
\* once
HasVoiceClient == voiceClient

\* a variant of the loop that starts on_response_block without awaiting it
BlockNotAwaited == "executor"

\* _process_streaming_response, lines 238-240, with _on_response_block: the
\* loop awaits the hook, which awaits speak_streaming
BlockForwarded == "speaking"

\* _process_streaming_response's loop, resumed, until the next real suspension,
\* and what _handle_conversation does when the loop is left.  hk is the hook
\* trace of the turn so far.
Iterate(outcome, hk) ==
  \/ /\ Reraised(outcome) = "block"
     /\ blockCount < MaxBlocks
     /\ blockCount' = blockCount + 1
     /\ speakPhase' = "block"
     /\ IF HasVoiceClient
        THEN /\ StartSpeak
             /\ hooks' = hk \o <<"block", "speech_start">>
             /\ procPc' = BlockForwarded
        ELSE \* speak_streaming returns at once (lines 106-108)
             /\ hooks' = Append(hk, "block")
             /\ procPc' = "executor"
             /\ UNCHANGED <<speakingLock, vcPlaying, isSpeaking, speechTask>>
     /\ UNCHANGED <<isProcessing, currentTextBlocks, pendingAudio, userBuffers,
                    userTimers, adds, tainted, fragEpoch, completed,
                    processingLock, curTurn, engineRaised, streamEnded>>
  \/ /\ Reraised(outcome) = "raise"
     /\ engineRaised' = TRUE
     /\ UNCHANGED streamEnded
     /\ speakPhase' = "fallback"
     /\ IF HasVoiceClient
        THEN /\ StartSpeak
             /\ hooks' = hk \o <<"fallback", "speech_start">>
             /\ procPc' = "speaking"
             /\ UNCHANGED <<isProcessing, currentTextBlocks, pendingAudio,
                            userBuffers, userTimers, adds, tainted, fragEpoch,
                            completed, processingLock, curTurn>>
        ELSE /\ CompleteTurn(Append(hk, "fallback"))
             /\ procPc' = "get"
             /\ UNCHANGED <<speakingLock, vcPlaying, isSpeaking, speechTask>>
     /\ UNCHANGED blockCount
  \/ /\ Reraised(outcome) = "end"
     /\ CompleteTurn(hk)
     /\ procPc' = "get"
     /\ engineRaised' = (engineRaised \/ outcome = "raise")
     /\ streamEnded' = (outcome = "end")
     /\ UNCHANGED <<blockCount, speakPhase>>
\* a variant of _process_responses that starts _handle_conversation without
\* awaiting it
ProcessorNeverWaits == procPc \in {"get", "executor", "speaking"}

\* _process_responses: the loop takes the next turn only when the previous
\* _handle_conversation has been awaited to its end
ProcessorReady == procPc = "get"

\* _process_responses takes a turn; _handle_conversation runs up to the await
\* of run_in_executor
ProcessorGet ==
  /\ ProcessorReady
  /\ responseQueue # <<>>
  /\ responseQueue' = Tail(responseQueue)
  /\ curTurn' = Head(responseQueue)
  /\ processingLock' = TRUE
  /\ isProcessing' = TRUE
  /\ currentTextBlocks' = currentTextBlocks \cup {Head(responseQueue).user}
  /\ procPc' = "executor"
  /\ blockCount' = 0
  /\ handled' = Append(handled, Head(responseQueue))
  /\ hooks' = <<"start">>
  /\ engineRaised' = FALSE
  /\ streamEnded' = FALSE
  /\ UNCHANGED <<deferred, orphanTimers, voiceClient, audioQueue, captured, interrupts, intWaiting,
                 userBuffers, userTimers, finalizeTasks, speakPhase,
                 isSpeaking, speakingLock, speechTask, vcPlaying, pendingAudio>>
  /\ UNCHANGED <<turnLog, completed, adds, tainted, epoch, fragEpoch, heldBack,
                 queued, cleared, intLog>>
  /\ UNCHANGED <<chunkerVars, callVars, loopBusy, speakVars, engineVars, streamVars>>

\* the executor future completes and the processor resumes
ExecutorReturns ==
  /\ procPc = "executor"
  /\ \E outcome \in Outcomes :
       /\ Iterate(outcome, hooks)
       /\ IF Reraised(outcome) = "end"
          THEN UNCHANGED <<isSpeaking, speakingLock, speechTask, vcPlaying>>
          ELSE TRUE
  /\ UNCHANGED <<deferred, orphanTimers, voiceClient, audioQueue, captured, interrupts, intWaiting,
                 finalizeTasks, responseQueue>>
  /\ UNCHANGED <<turnLog, handled, epoch, heldBack, queued, cleared, intLog>>
  /\ UNCHANGED <<chunkerVars, callVars, loopBusy, speakVars, engineVars, streamVars>>

\* ------------------------------------------------------------ AudioManager
\* _stream_tts_audio, first step: the source is built and handed to the
\* device; an exception of either is caught and logged (lines 181-182)
SpeechTaskStarts ==
  /\ speechTask = "created"
  /\ \/ /\ speechTask' = "playing"
        /\ vcPlaying' = TRUE
     \/ /\ speechTask' = "done"
        /\ UNCHANGED vcPlaying
  /\ UNCHANGED <<deferred, orphanTimers, voiceClient, audioQueue, currentTextBlocks, captured,
                 interrupts, intWaiting, userBuffers, userTimers, finalizeTasks,
                 responseQueue, isProcessing, processingLock, procPc, curTurn,
                 blockCount, speakPhase, isSpeaking, speakingLock, pendingAudio>>
  /\ UNCHANGED histVars
  /\ UNCHANGED <<chunkerVars, callVars, loopBusy, speakVars, engineVars, streamVars>>

\* the device comes to the end of the audio
PlaybackEnds ==
  /\ vcPlaying
  /\ vcPlaying' = FALSE
  /\ UNCHANGED <<deferred, orphanTimers, voiceClient, audioQueue, currentTextBlocks, captured,
                 interrupts, intWaiting, userBuffers, userTimers, finalizeTasks,
                 responseQueue, isProcessing, processingLock, procPc, curTurn,
                 blockCount, speakPhase, isSpeaking, speakingLock, speechTask,
                 pendingAudio>>
  /\ UNCHANGED histVars
  /\ UNCHANGED <<chunkerVars, callVars, loopBusy, speakVars, engineVars, streamVars>>

\* a variant of _stream_tts_audio that returns right after play()
DeviceNotPolled == TRUE

\* _stream_tts_audio, lines 176-177: the loop is left when is_playing() is
\* false
DeviceIdle == ~vcPlaying

\* _stream_tts_audio wakes from sleep(0.1) and finds the device idle
SpeechTaskEnds ==
  /\ speechTask = "playing"
  /\ DeviceIdle
  /\ speechTask' = "done"
  /\ UNCHANGED <<deferred, orphanTimers, voiceClient, audioQueue, currentTextBlocks, captured,
                 interrupts, intWaiting, userBuffers, userTimers, finalizeTasks,
                 responseQueue, isProcessing, processingLock, procPc, curTurn,
                 blockCount, speakPhase, isSpeaking, speakingLock, vcPlaying,
                 pendingAudio>>
  /\ UNCHANGED histVars
  /\ UNCHANGED <<chunkerVars, callVars, loopBusy, speakVars, engineVars, streamVars>>

\* the cancelled speech task is resumed with CancelledError, which its
\* "except Exception" does not catch
SpeechTaskCancelled ==
  /\ speechTask = "cancelling"
  /\ speechTask' = "cancelled"
  /\ UNCHANGED <<deferred, orphanTimers, voiceClient, audioQueue, currentTextBlocks, captured,
                 interrupts, intWaiting, userBuffers, userTimers, finalizeTasks,
                 responseQueue, isProcessing, processingLock, procPc, curTurn,
                 blockCount, speakPhase, isSpeaking, speakingLock, vcPlaying,
                 pendingAudio>>
  /\ UNCHANGED histVars
  /\ UNCHANGED <<chunkerVars, callVars, loopBusy, speakVars, engineVars, streamVars>>

\* _process_responses, lines 187-189: the CancelledError of the awaited speech
\* task, which no "except Exception" on the way catches, ends the loop
AfterCancelledSpeak == "stopped"

\* a variant of speak_streaming that creates the task and goes on without
\* awaiting it
SpeechTaskNotAwaited == speechTask # "none"

\* speak_streaming, line 137: the await of the speech task returns (or raises)
\* only when the task has finished
SpeechTaskAwaited == speechTask \in {"done", "cancelled"}

\* a variant of speak_streaming without the finally block
IsSpeakingLeftAsIs == isSpeaking

\* speak_streaming, lines 141-144: the finally block resets the flag on every
\* way out of the try block
IsSpeakingAfterFinally == FALSE

\* the await of the speech task returns or raises: speak_streaming's finally
\* block, then the caller goes on
ProcessorResumes ==
  /\ procPc = "speaking"
  /\ SpeechTaskAwaited
  /\ heldBack' = {}
  /\ IF speechTask = "cancelled"
     THEN /\ isSpeaking' = IsSpeakingAfterFinally
          /\ speakingLock' = FALSE
          /\ CompleteTurn(Append(hooks, "speech_end"))
          /\ procPc' = AfterCancelledSpeak
          /\ UNCHANGED <<blockCount, speakPhase, engineRaised, streamEnded, speechTask,
                         vcPlaying>>
     ELSE \E outcome \in (IF speakPhase = "block" THEN Outcomes ELSE {"end"}) :
            /\ Iterate(outcome, Append(hooks, "speech_end"))
            /\ IF Reraised(outcome) = "end"
               THEN /\ isSpeaking' = IsSpeakingAfterFinally
                    /\ speakingLock' = FALSE
                    /\ UNCHANGED <<speechTask, vcPlaying>>
               ELSE TRUE
  /\ UNCHANGED <<deferred, orphanTimers, voiceClient, audioQueue, captured, interrupts, intWaiting,
                 finalizeTasks, responseQueue>>
  /\ UNCHANGED <<turnLog, handled, epoch, queued, cleared, intLog>>
  /\ UNCHANGED <<chunkerVars, callVars, loopBusy, speakVars, engineVars, streamVars>>

\* a variant of interrupt_and_clear that cancels whatever task it finds
SpeechTaskExists == speechTask # "none"

\* interrupt_and_clear, line 193: there is a speech task and it is not done
SpeechTaskRunning == speechTask \in {"created", "playing", "cancelling"}

\* the interrupt command: interrupt_and_clear, then the hand-off queue is
\* emptied
Interrupt ==
  /\ interrupts < MaxInterrupts
  /\ interrupts' = interrupts + 1
  /\ vcPlaying' = FALSE
  /\ intLog' = Append(intLog, [task |-> speechTask, playing |-> vcPlaying,
                                outcome |-> IF SpeechTaskRunning THEN "waiting"
                                                                 ELSE "returned"])
  /\ IF SpeechTaskRunning
     THEN \* lines 193-196: the task is cancelled and awaited
          /\ speechTask' = "cancelling"
          /\ intWaiting' = intWaiting + 1
          /\ UNCHANGED <<isSpeaking, audioQueue, cleared>>
     ELSE \* line 200, then the command's loop over the queue
          /\ isSpeaking' = FALSE
          /\ audioQueue' = <<>>
          /\ cleared' = cleared \cup
                          UNION {Tokens(audioQueue[i].text) : i \in DOMAIN audioQueue}
          /\ UNCHANGED <<speechTask, intWaiting>>
  /\ UNCHANGED <<deferred, orphanTimers, voiceClient, currentTextBlocks, captured, userBuffers,
                 userTimers, finalizeTasks, responseQueue, isProcessing,
                 processingLock, procPc, curTurn, blockCount, speakPhase,
                 speakingLock, pendingAudio>>
  /\ UNCHANGED <<turnLog, handled, completed, hooks, engineRaised, streamEnded, adds,
                 tainted, epoch, fragEpoch, heldBack, queued>>
  /\ UNCHANGED <<chunkerVars, callVars, loopBusy, speakVars, engineVars, streamVars>>

\* interrupt_and_clear, lines 195-198: the await of the cancelled task raises
\* asyncio.CancelledError, and "except CancelledError" names
\* concurrent.futures.CancelledError, which it is not
InterruptAwaitOutcome == "raised"

\* an interrupt command is resumed when the task it awaits is cancelled: the
\* await raises asyncio.CancelledError, "except CancelledError" names
\* concurrent.futures.CancelledError, so the command ends there, with line 200
\* and the loop over the queue not run
InterruptResumes ==
  /\ intWaiting > 0
  /\ speechTask = "cancelled"
  \* the task's done callbacks run in the order in which they were added:
  \* speak_streaming awaited the task before the command did
  /\ procPc # "speaking"
  /\ speakPc # "await"
  /\ intWaiting' = intWaiting - 1
  /\ UNCHANGED <<deferred, orphanTimers, voiceClient, audioQueue, currentTextBlocks, captured,
                 interrupts, userBuffers, userTimers, finalizeTasks,
                 responseQueue, isProcessing, processingLock, procPc, curTurn,
                 blockCount, speakPhase, isSpeaking, speakingLock, speechTask,
                 vcPlaying, pendingAudio>>
  /\ LET i == CHOOSE j \in DOMAIN intLog :
                  /\ intLog[j].outcome = "waiting"
                  /\ \A h \in 1..(j - 1) : intLog[h].outcome # "waiting"
     IN intLog' = [intLog EXCEPT ![i].outcome = InterruptAwaitOutcome]
  /\ UNCHANGED <<turnLog, handled, completed, hooks, engineRaised, streamEnded, adds,
                 tainted, epoch, fragEpoch, heldBack, queued, cleared>>
  /\ UNCHANGED <<chunkerVars, callVars, loopBusy, speakVars, engineVars, streamVars>>

\* ------------------------------------------------------- SmartTTSChunker
\* Blocks and chunks are sequences of characters: 0 is a blank, DOT stands for
\* the strong endings [.!?], COMMA for the weak ones [,;:] and any other
\* positive number is a letter.
DOT == 10
COMMA == 11

MaxOf(S) == CHOOSE x \in S : \A y \in S : y <= x

\* continuation_words (lines 43-48), of which the blocks below use "that"
ContinuationWords == {<<8, 9, 8, 9>>}

\* _classify_block as far as process_blocks tells its results apart: the four
\* sizes TINY, SMALL, MEDIUM and LARGE are handled alike ("text")
ClassifyBlock(block) ==
  IF Strip(block) = <<>> THEN "space"
  ELSE IF \A i \in DOMAIN block : block[i] \in {DOT, COMMA, SPACE} THEN "punct"
  ELSE "text"

\* the last word of a trimmed text (lines 91-98)
LastWord(t) ==
  LET sp == {i \in DOMAIN t : t[i] = SPACE}
  IN IF sp = {} THEN t ELSE SubSeq(t, MaxOf(sp) + 1, Len(t))

\* _should_send_chunk
ShouldSendChunk(text) ==
  LET t == Strip(text)
  IN /\ Len(t) >= 5
     /\ \/ t[Len(t)] = SPACE
        \/ Len(LastWord(t)) >= 4

\* _has_strong_sentence_ending
HasStrongSentenceEnding(text) ==
  LET t == Strip(text) IN t # <<>> /\ t[Len(t)] = DOT

\* str.split()
RECURSIVE Split(_)
Split(s) ==
  LET t == LStrip(s)
  IN IF t = <<>> THEN <<>>
     ELSE LET sp == {i \in DOMAIN t : t[i] = SPACE}
              n == IF sp = {} THEN Len(t) + 1
                   ELSE CHOOSE i \in sp : \A j \in sp : i <= j
          IN <<SubSeq(t, 1, n - 1)>> \o Split(SubSeq(t, n, Len(t)))

\* _force_chunk_if_too_long: the chunk it returns (<<>> for None) and the
\* buffer it leaves
ForceChunkIfTooLong(buf, maxSize) ==
  IF Len(buf) <= maxSize THEN [chunk |-> <<>>, buffer |-> buf]
  ELSE
    LET text == SubSeq(buf, 1, maxSize)
        lo == IF Len(text) - 50 > 0 THEN Len(text) - 50 ELSE 0
        \* lines 154-160: the last strong ending after which the text so far
        \* may be sent
        cuts == {p \in (lo + 2)..Len(text) :
                   /\ text[p] = DOT
                   /\ ShouldSendChunk(Strip(SubSeq(buf, 1, p)))}
        \* lines 163-173: the longest run of whole words that may be sent
        words == Split(text)
        wcuts == {i \in 1..(Len(words) - 1) :
                    ShouldSendChunk(JoinSp(SubSeq(words, 1, i)))}
        \* lines 176-184: cut in the middle
        mid == Len(text) \div 2
        half == Strip(SubSeq(buf, 1, mid))
    IN IF cuts # {}
       THEN LET p == MaxOf(cuts)
            IN [chunk |-> Strip(SubSeq(buf, 1, p)),
                buffer |-> Strip(SubSeq(buf, p + 1, Len(buf)))]
       ELSE IF wcuts # {}
       THEN LET cut == Len(JoinSp(SubSeq(words, 1, MaxOf(wcuts))))
            IN [chunk |-> Strip(SubSeq(buf, 1, cut)),
                buffer |-> Strip(SubSeq(buf, cut + 1, Len(buf)))]
       ELSE [chunk |-> IF Len(half) >= 5 THEN half ELSE <<>>,
             buffer |-> Strip(SubSeq(buf, mid + 1, Len(buf)))]

\* process_blocks, lines 209-212: a text block is added to the buffer
AppendText(buf, block) ==
  (IF buf # <<>> /\ buf[Len(buf)] # SPACE /\ block[1] # SPACE
   THEN buf \o <<SPACE>> ELSE buf) \o Strip(block)

\* process_blocks, lines 199-212: the buffer after the block is added
AppendBlock(buf, block) ==
  CASE ClassifyBlock(block) = "space" ->
         IF buf # <<>> /\ buf[Len(buf)] # SPACE THEN buf \o <<SPACE>> ELSE buf
    [] ClassifyBlock(block) = "punct" -> buf \o Strip(block)
    [] OTHER -> AppendText(buf, block)

\* a variant of line 245 that passes any chunk
AnyChunkPasses(chunk) == TRUE

\* process_blocks, line 245: the final validation of a chunk
ChunkPasses(chunk) == Len(Strip(chunk)) >= 5

\* a variant of line 224 that never forces a split
NeverTooLong(size, maxSize) == FALSE

\* process_blocks, line 224: the buffer is over the hard maximum
TooLong(size, maxSize) == size > maxSize

\* one turn of the for loop of process_blocks: the buffer it leaves and the
\* chunk it yields (<<>> when it yields none)
ProcessOneBlock(buf, block, minSize, maxSize) ==
  IF block = <<>> \/ ClassifyBlock(block) = "space"
  THEN [buffer |-> IF block = <<>> THEN buf ELSE AppendBlock(buf, block),
        chunk |-> <<>>]
  ELSE
    LET added == AppendBlock(buf, block)
        current == Strip(added)
        size == Len(current)
        forced == ForceChunkIfTooLong(added, maxSize)
        whole ==
          \/ /\ size >= 10
             /\ HasStrongSentenceEnding(current)
             /\ ShouldSendChunk(current)
          \/ /\ size >= minSize
             /\ ShouldSendChunk(current)
        toSend == IF TooLong(size, maxSize) THEN forced.chunk
                  ELSE IF whole THEN current ELSE <<>>
        left == IF TooLong(size, maxSize) THEN forced.buffer
                ELSE IF whole THEN <<>> ELSE added
    IN IF toSend = <<>> THEN [buffer |-> left, chunk |-> <<>>]
       ELSE IF ChunkPasses(toSend) THEN [buffer |-> left, chunk |-> toSend]
       ELSE [buffer |-> IF left # <<>> THEN toSend \o <<SPACE>> \o left
                        ELSE toSend,
             chunk |-> <<>>]

\* a variant of line 260 that yields any remainder
AnyFinalChunk(final) == TRUE

\* process_blocks, line 260: the remainder is yielded when it has 3
\* characters or more
FinalChunkPasses(final) == Len(final) >= 3

\* the for loop of process_blocks takes the next block
ProcessBlock ==
  /\ chunkerPc = "blocks"
  /\ blockPos <= Len(textBlocks)
  /\ LET r == ProcessOneBlock(buffer, textBlocks[blockPos],
                              minChunkSize, maxChunkSize)
     IN /\ buffer' = r.buffer
        /\ chunks' = IF r.chunk # <<>> THEN Append(chunks, r.chunk) ELSE chunks
  /\ blockPos' = blockPos + 1
  /\ UNCHANGED <<minChunkSize, maxChunkSize, textBlocks, chunkerPc, finalYielded>>
  /\ UNCHANGED <<progVars, histVars, callVars, loopBusy, speakVars, engineVars, streamVars>>

\* process_blocks after the loop, lines 257-265
StreamExhausted ==
  /\ chunkerPc = "blocks"
  /\ blockPos > Len(textBlocks)
  /\ chunkerPc' = "done"
  /\ LET final == Strip(buffer)
     IN IF final # <<>> /\ FinalChunkPasses(final)
        THEN chunks' = Append(chunks, final) /\ finalYielded' = TRUE
        ELSE UNCHANGED <<chunks, finalYielded>>
  /\ UNCHANGED <<minChunkSize, maxChunkSize, textBlocks, blockPos, buffer>>
  /\ UNCHANGED <<progVars, histVars, callVars, loopBusy, speakVars, engineVars, streamVars>>

\* -------------------------------------------------------- specification
\* the services after construction and _setup_hook
ServicesInit ==
  /\ voiceClient = FALSE
  /\ audioQueue = <<>>
  /\ currentTextBlocks = {}
  /\ captured = 0
  /\ interrupts = 0
  /\ intWaiting = 0
  /\ userBuffers = [u \in Users |-> <<>>]
  /\ userTimers = [u \in Users |-> "none"]
  /\ finalizeTasks = [u \in Users |-> 0]
  /\ deferred = [u \in Users |-> 0]
  /\ orphanTimers = [u \in Users |-> 0]
  /\ responseQueue = <<>>
  /\ isProcessing = FALSE
  /\ processingLock = FALSE
  /\ procPc = "get"
  /\ curTurn = NoTurn
  /\ blockCount = 0
  /\ speakPhase = "block"
  /\ isSpeaking = FALSE
  /\ speakingLock = FALSE
  /\ speechTask = "none"
  /\ vcPlaying = FALSE
  /\ pendingAudio = [u \in Users |-> <<>>]
  /\ turnLog = <<>>
  /\ handled = <<>>
  /\ completed = 0
  /\ hooks = <<>>
  /\ engineRaised = FALSE
  /\ streamEnded = FALSE
  /\ adds = [u \in Users |-> <<>>]
  /\ tainted = [u \in Users |-> FALSE]
  /\ epoch = [u \in Users |-> 0]
  /\ fragEpoch = [k \in FragIds |-> 0]
  /\ heldBack = {}
  /\ queued = {}
  /\ cleared = {}
  /\ intLog = <<>>
  /\ raised = {}
  /\ lost = {}
  /\ loopBusy = FALSE
  /\ speakPc = "idle"
  /\ speakCalls = 0
  /\ enginePc = "idle"
  /\ prompt = "other"
  /\ attempt = 0
  /\ hasContent = FALSE
  /\ responses = 0
  /\ yielded = <<>>
  /\ sends = 0
  /\ fallbackIndex = 0
  /\ chats = 0
  /\ streamPc = "idle"
  /\ workerPc = "idle"
  /\ produced = 0
  /\ callbacks = <<>>
  /\ ttsQueue = <<>>
  /\ received = <<>>
  /\ dropped = <<>>

\* no SmartTTSChunker is at work
ChunkerIdle ==
  /\ minChunkSize = 30
  /\ maxChunkSize = 200
  /\ textBlocks = <<>>
  /\ blockPos = 1
  /\ buffer = <<>>
  /\ chunks = <<>>
  /\ chunkerPc = "idle"
  /\ finalYielded = FALSE

Init == ServicesInit /\ ChunkerIdle

Capture == \E u \in Users : \E text \in FragTexts(captured + 1) : ProcessAudio(u, text)
Timer == \E u \in Users : TimerFires(u)
Finalize == \E u \in Users : FinalizePhrase(u)

Next ==
  \/ Join
  \/ Capture
  \/ PumpStep
  \/ Timer
  \/ Finalize
  \/ ProcessorGet
  \/ ExecutorReturns
  \/ SpeechTaskStarts
  \/ PlaybackEnds
  \/ SpeechTaskEnds
  \/ SpeechTaskCancelled
  \/ ProcessorResumes
  \/ Interrupt
  \/ InterruptResumes

Spec == Init /\ [][Next]_vars

\* the same program with one speaker who goes on talking, MaxBargeIn captures
\* in all, and nobody using the interrupt command
CaptureOne ==
  \E text \in FragTexts(captured + 1) : ProcessAudioWithin(MaxBargeIn, 1, text)

BargeInNext ==
  \/ Join
  \/ CaptureOne
  \/ PumpStep
  \/ Timer
  \/ Finalize
  \/ ProcessorGet
  \/ ExecutorReturns
  \/ SpeechTaskStarts
  \/ PlaybackEnds
  \/ SpeechTaskEnds
  \/ ProcessorResumes

BargeInSpec == Init /\ [][BargeInNext]_vars

\* A SmartTTSChunker at work on its own: the blocks an engine may stream,
\*   "Hi"  ","  " there"  "."  " "  ""  "there"  "that"
\* up to MaxChunkBlocks of them, for a chunker built with min_chunk_size 5 or
\* the default 30 and with the default max_chunk_size 200 or a tight 8.
BlockTexts ==
  {<<1, 2>>, <<COMMA>>, <<SPACE, 3, 4, 5, 6, 7>>, <<DOT>>, <<SPACE>>, <<>>,
   <<3, 4, 5, 6, 7>>, <<8, 9, 8, 9>>}

BlockSeqs == UNION {[1..n -> BlockTexts] : n \in 0..MaxChunkBlocks}

ChunkerFed ==
  /\ minChunkSize \in {5, 30}
  /\ maxChunkSize \in {8, 200}
  /\ textBlocks \in BlockSeqs
  /\ blockPos = 1
  /\ buffer = <<>>
  /\ chunks = <<>>
  /\ chunkerPc = "blocks"
  /\ finalYielded = FALSE

ChunkerInit == ServicesInit /\ ChunkerFed

ChunkerNext == ProcessBlock \/ StreamExhausted

ChunkerSpec == ChunkerInit /\ [][ChunkerNext]_vars

\* The event loop runs every callback and coroutine step that is ready and
\* fires every armed timer, the engine call returns or raises, and the audio
\* handed to the device is finite.  Captures, the join command and the
\* interrupt command are the environment's: nothing forces them.
Fairness ==
  /\ WF_vars(PumpStep)
  /\ \A u \in Users : WF_vars(TimerFires(u)) /\ WF_vars(FinalizePhrase(u))
  /\ WF_vars(ProcessorGet)
  /\ WF_vars(ExecutorReturns)
  /\ WF_vars(SpeechTaskStarts)
  /\ WF_vars(PlaybackEnds)
  /\ WF_vars(SpeechTaskEnds)
  /\ WF_vars(SpeechTaskCancelled)
  /\ WF_vars(ProcessorResumes)
  /\ WF_vars(InterruptResumes)

\* the same program with a recogniser that returns one word per capture
CaptureWord == \E u \in Users : ProcessAudio(u, <<captured + 1>>)

NextWords ==
  \/ Join
  \/ CaptureWord
  \/ PumpStep
  \/ Timer
  \/ Finalize
  \/ ProcessorGet
  \/ ExecutorReturns
  \/ SpeechTaskStarts
  \/ PlaybackEnds
  \/ SpeechTaskEnds
  \/ SpeechTaskCancelled
  \/ ProcessorResumes
  \/ Interrupt
  \/ InterruptResumes

LiveSpec == Init /\ [][NextWords]_vars /\ Fairness

\* ------------------------------------------- the loop thread and the engine
\* chat_stream returns an iterator.  When the engine is a generator function
\* (as VertexAgentEngine.chat_stream is), the call made in the executor only
\* creates the generator, and its body, the engine's work on the next block,
\* runs inside `for block in stream_iterator` (line 235) on the loop thread:
\* until next() returns, no callback, timer or coroutine of the loop runs.
\* The capture thread and the player's thread go on.

\* the processor is about to ask the iterator for a block: the executor's
\* future is done, or a block's speak cycle has ended normally
AtNext ==
  \/ procPc = "executor"
  \/ /\ procPc = "speaking"
     /\ SpeechTaskAwaited
     /\ speechTask # "cancelled"
     /\ speakPhase = "block"

\* the loop thread enters next(stream_iterator) and the engine starts to work
NextEntered ==
  /\ ~loopBusy
  /\ AtNext
  /\ loopBusy' = TRUE
  /\ UNCHANGED <<progVars, histVars, chunkerVars, callVars, speakVars, engineVars, streamVars>>

\* next(stream_iterator) returns or raises; what the processor does with the
\* outcome is ExecutorReturns or ProcessorResumes
NextReturned ==
  /\ loopBusy
  /\ loopBusy' = FALSE
  /\ UNCHANGED <<progVars, histVars, chunkerVars, callVars, speakVars, engineVars, streamVars>>

\* the loop runs a callback, a timer or a coroutine step only when the loop
\* thread is not inside a synchronous call
LoopFree == ~loopBusy

Pump == LoopFree /\ PumpStep
LoopTimerFires(u) == LoopFree /\ TimerFires(u)

LoopNext ==
  \/ Join
  \/ CaptureWord
  \/ PlaybackEnds
  \/ NextEntered
  \/ NextReturned
  \/ Pump
  \/ \E u \in Users : LoopTimerFires(u)
  \/ LoopFree /\ Finalize
  \/ LoopFree /\ ProcessorGet
  \/ LoopFree /\ ExecutorReturns
  \/ LoopFree /\ SpeechTaskStarts
  \/ LoopFree /\ SpeechTaskEnds
  \/ LoopFree /\ SpeechTaskCancelled
  \/ LoopFree /\ ProcessorResumes
  \/ LoopFree /\ Interrupt
  \/ LoopFree /\ InterruptResumes

LoopSpec == Init /\ [][LoopNext]_vars

\* ------------------------------------- the managers under any caller
\* add_fragment is documented as callable from any thread and tells three
\* callers apart (lines 113-133): a coroutine of the loop ("task": the
\* orchestrator's pump and _process_pending_audio), a plain callback of the
\* loop ("callback": current_task() is None, the registration of the timer
\* is deferred with call_soon_threadsafe) and another thread ("thread":
\* get_running_loop() raises, the saved loop is used, and current_task()
\* raises RuntimeError before any timer is registered).
CallerContexts == {"task", "callback", "thread"}

\* the fragments accepted so far, counted by their words
Accepted ==
  Cardinality(UNION {TokensOf(userBuffers[u]) : u \in Users}
                \cup UNION {Tokens(turnLog[i].text) : i \in DOMAIN turnLog}
                \cup lost)

\* add_fragment, lines 109-110: the stored handle is cancelled
CancelTimer(timers, u) ==
  [timers EXCEPT ![u] = IF @ = "armed" THEN "cancelled" ELSE @]

\* add_fragment called from the context ctx with a text that is not ignored
AddFragmentFrom(ctx, u, fragment) ==
  /\ Accepted < MaxFrags
  /\ ~Ignored(fragment)
  /\ IF ctx = "task"
     THEN /\ AddFragments([v \in Users |-> IF v = u THEN fragment ELSE <<>>])
          /\ UNCHANGED deferred
     ELSE /\ userBuffers' = AddFragmentBuffers(userBuffers, u, fragment)
          /\ userTimers' = CancelTimer(userTimers, u)
          /\ deferred' = IF ctx = "callback"
                         THEN [deferred EXCEPT ![u] = @ + 1]
                         ELSE deferred
          /\ adds' = [adds EXCEPT ![u] = Append(@, fragment)]
          /\ tainted' = [tainted EXCEPT ![u] = @ \/ finalizeTasks[u] > 0]
          /\ fragEpoch' = [k \in FragIds |->
                             IF k \in Tokens(fragment) THEN epoch[u]
                                                       ELSE fragEpoch[k]]
  /\ UNCHANGED <<orphanTimers, voiceClient, audioQueue, currentTextBlocks,
                 captured, interrupts, intWaiting, finalizeTasks, responseQueue,
                 isProcessing, processingLock, procPc, curTurn, blockCount,
                 speakPhase, isSpeaking, speakingLock, speechTask, vcPlaying,
                 pendingAudio>>
  /\ UNCHANGED <<turnLog, handled, completed, hooks, engineRaised, streamEnded, epoch,
                 heldBack, queued, cleared, intLog>>
  /\ raised' = IF ctx = "thread" THEN raised \cup Tokens(fragment) ELSE raised
  /\ UNCHANGED <<chunkerVars, lost, loopBusy, speakVars, engineVars, streamVars>>

\* add_fragment called from another thread while _finalize_phrase runs for
\* the same speaker on the loop thread: the two are not synchronised, so the
\* append of line 106 can land on the list after _finalize_phrase has joined
\* it (line 161) and before or after it stores a new list (line 162).  The
\* turn is made without the fragment and the list that got it is dropped.
\* The caller then cancels the stored handle and raises as in any call from
\* a thread.
AddFragmentRacesFinalize(u, fragment) ==
  /\ Accepted < MaxFrags
  /\ ~Ignored(fragment)
  /\ finalizeTasks[u] > 0
  /\ userBuffers[u] # <<>>
  /\ finalizeTasks' = [finalizeTasks EXCEPT ![u] = @ - 1]
  /\ userBuffers' = [userBuffers EXCEPT ![u] = <<>>]
  /\ responseQueue' = Append(responseQueue, Turn(u, Phrase(userBuffers[u])))
  /\ turnLog' = Append(turnLog, Turn(u, Phrase(userBuffers[u])))
  /\ userTimers' = CancelTimer(userTimers, u)
  /\ adds' = [adds EXCEPT ![u] = <<>>]
  /\ tainted' = [tainted EXCEPT ![u] = FALSE]
  /\ lost' = lost \cup Tokens(fragment)
  /\ raised' = raised \cup Tokens(fragment)
  /\ UNCHANGED <<deferred, orphanTimers, voiceClient, audioQueue,
                 currentTextBlocks, captured, interrupts, intWaiting,
                 isProcessing, processingLock, procPc, curTurn, blockCount,
                 speakPhase, isSpeaking, speakingLock, speechTask, vcPlaying,
                 pendingAudio>>
  /\ UNCHANGED <<handled, completed, hooks, engineRaised, streamEnded, epoch,
                 fragEpoch, heldBack, queued, cleared, intLog>>
  /\ UNCHANGED <<chunkerVars, loopBusy, speakVars, engineVars, streamVars>>

\* the deferred lambda runs: _schedule_timer stores a new call_later handle
\* over the one _user_timers holds, without cancelling it (lines 137-142)
ScheduleTimerDeferred(u) ==
  /\ deferred[u] > 0
  /\ deferred' = [deferred EXCEPT ![u] = @ - 1]
  /\ orphanTimers' = [orphanTimers EXCEPT
                        ![u] = IF userTimers[u] = "armed" THEN @ + 1 ELSE @]
  /\ userTimers' = [userTimers EXCEPT ![u] = "armed"]
  /\ UNCHANGED <<voiceClient, audioQueue, currentTextBlocks, captured,
                 interrupts, intWaiting, userBuffers, finalizeTasks,
                 responseQueue, isProcessing, processingLock, procPc, curTurn,
                 blockCount, speakPhase, isSpeaking, speakingLock, speechTask,
                 vcPlaying, pendingAudio>>
  /\ UNCHANGED histVars
  /\ UNCHANGED <<chunkerVars, callVars, loopBusy, speakVars, engineVars, streamVars>>

\* a handle that _user_timers no longer holds fires all the same
OrphanTimerFires(u) ==
  /\ orphanTimers[u] > 0
  /\ orphanTimers' = [orphanTimers EXCEPT ![u] = @ - 1]
  /\ finalizeTasks' = [finalizeTasks EXCEPT ![u] = @ + 1]
  /\ epoch' = [epoch EXCEPT ![u] = @ + 1]
  /\ UNCHANGED <<deferred, voiceClient, audioQueue, currentTextBlocks, captured,
                 interrupts, intWaiting, userBuffers, userTimers, responseQueue,
                 isProcessing, processingLock, procPc, curTurn, blockCount,
                 speakPhase, isSpeaking, speakingLock, speechTask, vcPlaying,
                 pendingAudio>>
  /\ UNCHANGED <<turnLog, handled, completed, hooks, engineRaised, streamEnded, adds,
                 tainted, fragEpoch, heldBack, queued, cleared, intLog>>
  /\ UNCHANGED <<chunkerVars, callVars, loopBusy, speakVars, engineVars, streamVars>>

AddFragmentCall ==
  \E ctx \in CallerContexts : \E u \in Users :
    \E text \in FragTexts(Accepted + 1) : AddFragmentFrom(ctx, u, text)
AddFragmentRace ==
  \E u \in Users :
    \E text \in FragTexts(Accepted + 1) : AddFragmentRacesFinalize(u, text)
DeferredRuns == \E u \in Users : ScheduleTimerDeferred(u)
OrphanFires == \E u \in Users : OrphanTimerFires(u)

\* the two managers wired by _setup_callbacks, before any join command (no
\* voice client is set), with add_fragment called directly
ManagerNext ==
  \/ AddFragmentCall
  \/ AddFragmentRace
  \/ DeferredRuns
  \/ Timer
  \/ OrphanFires
  \/ Finalize
  \/ ProcessorGet
  \/ ExecutorReturns

ManagerSpec == Init /\ [][ManagerNext]_vars

\* ----------------------------------------------------------------- claims
Count(x, seq) == Cardinality({i \in DOMAIN seq : seq[i] = x})
StripAll(fs) == [i \in DOMAIN fs |-> Strip(fs[i])]
IsPrefix(a, b) == Len(a) <= Len(b) /\ \A i \in DOMAIN a : a[i] = b[i]
TurnOver == hooks # <<>> /\ hooks[Len(hooks)] = "complete"

\* C1: on_response_start for a turn fires only when on_response_complete has
\* returned for every turn started before it: at most one turn is between its
\* start hook and the return of its complete hook, and whenever the processor
\* is idle every started turn has completed.
C1_OneTurnAtATime ==
  /\ Len(handled) <= completed + 1
  /\ Len(handled) = completed + 1 <=> procPc \in {"executor", "speaking"}

\* a second turn is being spoken after the first one completed
C1_Witness == Len(handled) = 2 /\ completed = 1 /\ procPc = "speaking"

\* C2: when _finalize_phrase runs for a speaker whose buffered fragments were
\* all added with the timer never firing in between (and none was added
\* between the firing and this run), it enqueues exactly one turn, whose text
\* is the trimmed fragments joined by single blanks in submission order.
C2_OneTurnPerBurst ==
  [][\A u \in Users :
       (finalizeTasks'[u] < finalizeTasks[u] /\ adds[u] # <<>> /\ ~tainted[u])
         => turnLog' = Append(turnLog, Turn(u, JoinSp(StripAll(adds[u]))))]_vars

\* two fragments of one burst, one of them padded with blanks, made one turn
C2_Witness ==
  \E i \in DOMAIN turnLog :
    /\ turnLog[i].text = <<1, SPACE, 2>>
    /\ fragEpoch[1] = 0 /\ fragEpoch[2] = 0
    /\ \E u \in Users : epoch[u] = 1 /\ turnLog[i].user = u

\* C3: a turn never holds fragments from both sides of a gap longer than
\* silence_timeout: all fragments of one turn reached add_fragment between the
\* same two firings of the speaker's timer, also when a fragment is added
\* after the timer fired and before _finalize_phrase ran.
C3_SplitAtGap ==
  \A i \in DOMAIN turnLog :
    \A j, k \in Tokens(turnLog[i].text) : fragEpoch[j] = fragEpoch[k]

\* C5: if the engine raised for a turn, on_response_block was called with the
\* fallback text exactly once, on_response_complete is the last hook of the
\* turn, and the processor loop goes on (the exception does not leave
\* _handle_conversation) unless the fallback's speech task was cancelled.
C5_FallbackOnceThenComplete ==
  engineRaised =>
    /\ Count("fallback", hooks) = 1
    /\ procPc \in {"get", "stopped"} => TurnOver
    /\ procPc = "stopped" => speechTask = "cancelled"
    /\ TurnOver =>
         \A i \in DOMAIN hooks : hooks[i] = "fallback" => i < Len(hooks)

\* a turn whose engine raised after a first block has completed
C5_Witness ==
  /\ engineRaised /\ TurnOver /\ procPc = "get"
  /\ Count("block", hooks) = 1 /\ Count("fallback", hooks) = 1

\* C4: every turn put on the response queue is taken by the processor, once,
\* and the turns are taken in the order in which they were put.
C4_EveryTurnHandledInOrder ==
  /\ []IsPrefix(handled, turnLog)
  /\ \A i \in 1..MaxFrags :
       (Len(turnLog) >= i) ~> (Len(handled) >= i /\ handled[i] = turnLog[i])

\* C6: every turn put on the response queue reaches on_response_start and
\* on_response_complete, whatever the engine and the interrupt command did
\* before.
C6_NeverWedges ==
  \A i \in 1..MaxFrags :
    (Len(turnLog) >= i) ~> (Len(handled) >= i /\ completed >= i)

\* the texts held for the users 1..n by a per-user list f, one after another
RECURSIVE ConcatUsers(_, _)
ConcatUsers(f, n) == IF n = 0 THEN <<>> ELSE ConcatUsers(f, n - 1) \o f[n]

TextsOf(items) == [i \in DOMAIN items |-> items[i].text]

\* every text the program holds: on the hand-off queue, in the pending
\* buffers, in the utterance buffers and in the turns made so far
AllTexts ==
  TextsOf(audioQueue) \o ConcatUsers(pendingAudio, NumUsers)
    \o ConcatUsers(userBuffers, NumUsers) \o TextsOf(turnLog)

\* how many times the word k occurs in a list of texts
RECURSIVE Occurrences(_, _)
Occurrences(k, texts) ==
  IF texts = <<>> THEN 0
  ELSE Cardinality({i \in DOMAIN Head(texts) : Head(texts)[i] = k})
         + Occurrences(k, Tail(texts))

InSomeTurn(k) == \E i \in DOMAIN turnLog : k \in Tokens(turnLog[i].text)

\* C7: a fragment that the pump dequeued while is_speaking was true stays in
\* the pending buffer, and is in no utterance buffer and in no turn, until
\* on_speech_end has fired for the speak cycle during which it arrived.
C7_HeldBackWhileSpeaking ==
  \A k \in heldBack :
    /\ \E u \in Users : k \in TokensOf(pendingAudio[u])
    /\ \A u \in Users : k \notin TokensOf(userBuffers[u])
    /\ ~InSomeTurn(k)

\* a fragment was dequeued during playback and is waiting in the pending buffer
C7_Witness == heldBack # {} /\ isSpeaking /\ speechTask = "playing"

InHandledTurn(k) == \E i \in DOMAIN handled : k \in Tokens(handled[i].text)

\* C8: every fragment that sits in a pending buffer is eventually part of a
\* turn that the processor has taken up, whether the playback ended by itself
\* or was interrupted.
C8_PendingSurfaces ==
  \A k \in FragIds :
    (\E u \in Users : k \in TokensOf(pendingAudio[u])) ~> InHandledTurn(k)

\* C9 as stated: every fragment with a word that was put on the hand-off
\* queue is held exactly once (on the queue, in a pending buffer, in an
\* utterance buffer or in the text of one turn): none is dropped, none is
\* duplicated.
C9_NothingLostNothingTwice ==
  \A k \in queued : Occurrences(k, AllTexts) = 1

\* C9 as amended: every fragment with a word that was put on the hand-off
\* queue is held exactly once and ends up in the text of exactly one turn,
\* except the fragments that the interrupt command removed from the hand-off
\* queue, which are held nowhere and reach no turn.
C9_LostOnlyWhenCleared ==
  /\ [](\A k \in queued :
          Occurrences(k, AllTexts) = (IF k \in cleared THEN 0 ELSE 1))
  /\ \A k \in FragIds : (k \in queued) ~> (k \in cleared \/ InSomeTurn(k))

\* the interrupt command dropped a fragment and another one, which waited in
\* the pending buffer, is in a turn
C9_Witness ==
  /\ cleared # {}
  /\ \E k \in queued \ cleared : InSomeTurn(k) /\ Len(handled) >= 1 /\ k > 1

\* the words of a speaker's turns, in the order of the turns
RECURSIVE SpokenBy(_, _)
SpokenBy(u, turns) ==
  IF turns = <<>> THEN <<>>
  ELSE (IF Head(turns).user = u
        THEN SelectSeq(Head(turns).text, LAMBDA c : c # SPACE)
        ELSE <<>>) \o SpokenBy(u, Tail(turns))

Increasing(seq) == \A i, j \in DOMAIN seq : i < j => seq[i] < seq[j]

\* C10: the fragments of one speaker appear in the turn texts in the order in
\* which they were captured (the k-th capture is the word k).
C10_SubmissionOrderKept == \A u \in Users : Increasing(SpokenBy(u, turnLog))

\* C11: every speak_streaming call that set is_speaking leaves its await of
\* the speech task by firing on_speech_end exactly once, whether the task
\* completed, failed or was cancelled; outside such a call is_speaking is
\* false, and a call that was entered is left (is_speaking does not stay
\* true).
C11_SpeakAlwaysCleansUp ==
  /\ [](/\ Count("speech_start", hooks)
             = Count("speech_end", hooks) + (IF procPc = "speaking" THEN 1 ELSE 0)
        /\ (procPc # "speaking" => ~isSpeaking))
  /\ [][(procPc = "speaking" /\ hooks' # hooks)
          => /\ hooks'[Len(hooks) + 1] = "speech_end"
             /\ Count("speech_end", hooks') = Count("speech_end", hooks) + 1]_vars
  /\ (isSpeaking ~> ~isSpeaking)

\* a speak cycle was left through the cancellation of its task
C11_Witness ==
  /\ speechTask = "cancelled"
  /\ ~isSpeaking
  /\ Count("speech_start", hooks) >= 1
  /\ Count("speech_end", hooks) = Count("speech_start", hooks)

\* C12: whenever speak_streaming creates its playback task, the task created
\* by the previous call is not running any more: it has finished or its
\* cancellation has been carried out.
C12_OneSpeakTask ==
  [][(hooks' # hooks /\ hooks' # <<>> /\ hooks'[Len(hooks')] = "speech_start")
       => speechTask \in {"none", "done", "cancelled"}]_vars

\* a second playback task of the same turn has been created
C12_Witness == speechTask = "created" /\ Count("speech_start", hooks) >= 2

\* an interrupt command starts while the device is idle and no speech task is
\* running
IdleInterrupt ==
  /\ interrupts' = interrupts + 1
  /\ ~vcPlaying
  /\ speechTask \in {"none", "done", "cancelled"}

\* what interrupt_and_clear must leave alone in that case: the pending
\* buffers, the device and the task, with no hook fired and no suspension
IdleInterruptFrame ==
  /\ pendingAudio' = pendingAudio
  /\ vcPlaying' = vcPlaying
  /\ speechTask' = speechTask
  /\ hooks' = hooks
  /\ intWaiting' = intWaiting

C14_InterruptReturnsNormally ==
  [][\A i \in DOMAIN intLog :
       (/\ intLog[i].task = "playing" /\ intLog[i].playing
        /\ intLog[i].outcome = "waiting"
        /\ intLog'[i].outcome # "waiting")
       => /\ intLog'[i].outcome = "returned"
          /\ ~vcPlaying' /\ speechTask' = "cancelled" /\ ~isSpeaking'
          /\ Count("speech_end", hooks') = Count("speech_start", hooks')]_vars

\* the call_later handles of a speaker that are armed: neither cancelled nor
\* fired
PendingTimers(u) == (IF userTimers[u] = "armed" THEN 1 ELSE 0) + orphanTimers[u]

\* C15: each speaker has at most one pending finalize timer, whatever the
\* context add_fragment is called from, the deferred registration included.
C15_OneTimerPerSpeaker == \A u \in Users : PendingTimers(u) <= 1

\* C16: a turn whose stream ended without a block with content, and without
\* raising, gets the fallback text through on_response_block once before
\* on_response_complete fires.
C16_EmptyStreamFallsBack ==
  (TurnOver /\ ~engineRaised /\ Count("block", hooks) = 0)
    => /\ Count("fallback", hooks) = 1
       /\ \A i \in DOMAIN hooks : hooks[i] = "fallback" => i < Len(hooks)

\* C17: an exception that comes out of a hook does not abort the turn: a turn
\* reaches on_response_complete only after its stream has been iterated to
\* the end (or the engine raised and the fallback was delivered), so the
\* blocks after the failing hook call are still delivered, and is_speaking
\* is false when the turn is over.
C17_HookFailureDoesNotAbort ==
  TurnOver => (streamEnded \/ engineRaised) /\ ~isSpeaking

\* C18: while no voice client is set, speak_streaming does nothing:
\* is_speaking stays false, no speech task exists, the lock is free, neither
\* on_speech_start nor on_speech_end fires, the processor is never left
\* waiting or stopped, and whenever it is idle every turn it took has reached
\* on_response_complete.
C18_NoVoiceClientNoSpeech ==
  ~voiceClient =>
    /\ ~isSpeaking /\ speechTask = "none" /\ ~speakingLock /\ ~vcPlaying
    /\ Count("speech_start", hooks) = 0 /\ Count("speech_end", hooks) = 0
    /\ procPc \in {"get", "executor"}
    /\ procPc = "get" => Len(handled) = completed

\* without a voice client a turn with two blocks has completed
C18_Witness ==
  ~voiceClient /\ TurnOver /\ Count("block", hooks) = 2 /\ procPc = "get"

\* C19: no processed turn completes in silence.  Playback can only be
\* reached by a speak cycle, so every turn that has reached
\* on_response_complete must have had at least one speak cycle started for
\* it, for a generated block or for the fallback text.
C19_NoSilentTurn ==
  TurnOver =>
    /\ Count("block", hooks) + Count("fallback", hooks) >= 1
    /\ Count("speech_start", hooks) >= 1

NoPending == \A u \in Users : pendingAudio[u] = <<>>

\* C20: the pending buffers hold something only while is_speaking is true,
\* and they are all empty right after the drain of a completed turn.
C20_PendingOnlyWhileSpeaking ==
  /\ [](~NoPending => isSpeaking)
  /\ [][completed' # completed => NoPending']_vars

\* C21: the processor takes the next turn from the queue (and starts its
\* engine call) only when no audio is playing and no speech task is running;
\* the device plays only while the processor waits inside a speak cycle.
C21_NoGenerationDuringPlayback ==
  /\ [](vcPlaying => procPc = "speaking")
  /\ [][Len(handled') > Len(handled) => ~vcPlaying /\ ~SpeechTaskRunning]_vars

\* a second turn has been taken after a speech task of the first one ended
C21_Witness ==
  Len(handled) = 2 /\ procPc = "executor" /\ speechTask = "done" /\ ~vcPlaying

\* C22: when the end of a turn drains pending text of a speaker, a
\* ConversationTurn with that text is enqueued in the same step, with no
\* debounce timer armed for it.
C22_DrainedBecomesTurnAtOnce ==
  [][\A u \in Users :
       (completed' > completed /\ CombinedText(pendingAudio[u]) # <<>>)
         => /\ \E i \in DOMAIN turnLog' :
                 /\ i > Len(turnLog)
                 /\ turnLog'[i] = Turn(u, CombinedText(pendingAudio[u]))
            /\ userTimers'[u] # "armed"]_vars

\* the fragments of a list that add_fragment would not ignore
NonBlank(fs) == SelectSeq(fs, LAMBDA f : ~Ignored(f))

\* C23: an empty or whitespace-only fragment that the pump hands to
\* add_fragment changes neither the speaker's buffer nor the speaker's timer,
\* and one that arrived while is_speaking was true does not alter the text
\* that the drain makes of the speaker's pending fragments: that text is what
\* it would be had the blank fragments never arrived.
C23_BlankFragmentIgnored ==
  /\ [][(/\ audioQueue # <<>>
         /\ audioQueue' = Tail(audioQueue)
         /\ Ignored(Head(audioQueue).text)
         /\ ~isSpeaking)
          => UNCHANGED <<userBuffers, userTimers>>]_vars
  /\ [][completed' > completed
          => \A u \in Users :
               CombinedText(pendingAudio[u])
                 = CombinedText(NonBlank(pendingAudio[u]))]_vars

\* ------------------------------------------------------ chunker claims
RECURSIVE Concat(_)
Concat(fs) == IF fs = <<>> THEN <<>> ELSE Head(fs) \o Concat(Tail(fs))

\* a text trimmed and with every run of blanks made one blank
Normalize(s) == JoinSp(Split(s))

\* the blocks as one text when a text block is set off from what precedes it
\* by one blank, a punctuation block is attached and a blank block is a blank
RECURSIVE Spaced(_, _)
Spaced(buf, blocks) ==
  IF blocks = <<>> THEN buf
  ELSE LET b == Head(blocks)
       IN Spaced(IF b = <<>> THEN buf
                 ELSE IF ClassifyBlock(b) = "text"
                 THEN (IF buf # <<>> /\ buf[Len(buf)] # SPACE
                       THEN buf \o <<SPACE>> ELSE buf) \o Strip(b)
                 ELSE AppendBlock(buf, b),
                 Tail(blocks))

\* the emitted chunks, trimmed and joined with single blanks
Emitted == Normalize(JoinSp(StripAll(chunks)))

\* the emitted text is the input text but for a trailing remainder of fewer
\* than 3 characters
RoundTrip(input) ==
  /\ IsPrefix(Emitted, input)
  /\ Len(Strip(SubSeq(input, Len(Emitted) + 1, Len(input)))) < 3

\* C24: when process_blocks has finished, the emitted chunks, trimmed and
\* joined with single blanks, are the input text except for a trailing
\* remainder shorter than 3 characters.  The input text is read in the three
\* ways the sentence allows: the blocks concatenated as they came, the blocks
\* joined with blanks, or the blocks with punctuation attached and text set
\* off by a blank; each is trimmed and single-space normalised, and the claim
\* is taken to hold for an input if it holds under one of the readings.
C24_ChunkerRoundTrip ==
  chunkerPc = "done" =>
    \/ RoundTrip(Normalize(Concat(textBlocks)))
    \/ RoundTrip(Normalize(JoinSp(textBlocks)))
    \/ RoundTrip(Normalize(Spaced(<<>>, textBlocks)))

\* C25: every chunk process_blocks emits has a trimmed length of 5 or more,
\* except the chunk emitted after the loop, whose trimmed length is 3 or more.
C25_NoShortChunk ==
  \A i \in DOMAIN chunks :
    \/ Len(Strip(chunks[i])) >= 5
    \/ finalYielded /\ i = Len(chunks) /\ Len(Strip(chunks[i])) >= 3

\* a chunk was emitted in the loop and a shorter one after it
C25_Witness ==
  chunkerPc = "done" /\ finalYielded /\ Len(chunks) = 2 /\ Len(chunks[2]) < 5

\* the blocks "Hi", ",", " there", "." and the chunk "Hi, there."
HiThereBlocks == <<<<1, 2>>, <<COMMA>>, <<SPACE, 3, 4, 5, 6, 7>>, <<DOT>>>>
HiThereChunk == <<1, 2, COMMA, SPACE, 3, 4, 5, 6, 7, DOT>>

IsSuffix(a, b) ==
  Len(a) <= Len(b) /\ SubSeq(b, Len(b) - Len(a) + 1, Len(b)) = a

\* C26: fed "Hi", ",", " there", "." with min_chunk_size 5 the chunker emits
\* the one chunk "Hi, there."; and when a text block that starts with a blank
\* is added to a buffer that is not empty (no forced cut: max_chunk_size
\* 200), the text held after it, the chunk just emitted or else the buffer,
\* ends with that blank and the block's text.
C26_HiThereAndSpacesKept ==
  /\ [](textBlocks = HiThereBlocks /\ minChunkSize = 5 /\ chunkerPc = "done"
          => chunks = <<HiThereChunk>>)
  /\ [][(/\ blockPos' = blockPos + 1
         /\ maxChunkSize = 200
         /\ buffer # <<>>
         /\ ClassifyBlock(textBlocks[blockPos]) = "text"
         /\ textBlocks[blockPos][1] = SPACE)
          => LET held == IF chunks' # chunks THEN chunks'[Len(chunks')]
                         ELSE buffer'
             IN IsSuffix(<<SPACE>> \o Strip(textBlocks[blockPos]), held)]_vars

\* C27: a call of add_fragment from a thread other than the loop's does not
\* raise, its fragment is never lost to a _finalize_phrase running at the same
\* time, and every call that buffers a fragment leaves a timer registered for
\* the speaker on the loop: the stored handle is armed, or the registration
\* is queued on the loop.
C27_ThreadCallKeepsFragmentAndTimer ==
  /\ [](raised = {} /\ lost = {})
  /\ [][\A u \in Users :
          Len(userBuffers'[u]) > Len(userBuffers[u])
            => userTimers'[u] = "armed" \/ deferred'[u] > deferred[u]]_vars

\* C28: a _finalize_phrase that finds the speaker's buffer empty enqueues no
\* turn and changes nothing of the managers' state (the coroutine itself is
\* over), and no turn on the response queue ever has an empty text.
C28_EmptyFinalizeIsNoOp ==
  /\ [](\A i \in DOMAIN turnLog : turnLog[i].text # <<>>)
  /\ [][\A u \in Users :
          (finalizeTasks'[u] < finalizeTasks[u] /\ userBuffers[u] = <<>>)
            => UNCHANGED <<deferred, orphanTimers, voiceClient, audioQueue,
                           currentTextBlocks, captured, interrupts, intWaiting,
                           userBuffers, userTimers, responseQueue,
                           isProcessing, processingLock, procPc, curTurn,
                           blockCount, speakPhase, isSpeaking, speakingLock,
                           speechTask, vcPlaying, pendingAudio, turnLog>>]_vars

\* a speaker's timer has fired twice and both _finalize_phrase runs are over,
\* but only one turn was made: the second run found the buffer empty
C28_Witness ==
  \E u \in Users :
    /\ epoch[u] = 2
    /\ finalizeTasks[u] = 0
    /\ userBuffers[u] = <<>>
    /\ Len(SelectSeq(turnLog, LAMBDA t : t.user = u)) = 1

\* C29: every non-empty block of the engine is forwarded to on_response_block
\* once, in the order produced, and gets a speak cycle of its own; when block
\* k+1 is forwarded, no speech task is running and the device is idle, so the
\* speak cycle of block k is over.
C29_BlockBySpeakCycle ==
  /\ [](Count("block", hooks) = blockCount)
  /\ [](\A i \in DOMAIN hooks :
          hooks[i] = "speech_start"
            => i > 1 /\ hooks[i - 1] \in {"block", "fallback"})
  /\ [][Count("block", hooks') > Count("block", hooks)
          => /\ ~SpeechTaskRunning
             /\ ~vcPlaying
             /\ voiceClient
                  => /\ speechTask' = "created"
                     /\ SubSeq(hooks', Len(hooks') - 1, Len(hooks'))
                          = <<"block", "speech_start">>]_vars

\* the second block of a turn has been forwarded after the speak cycle of the
\* first one ended
C29_Witness ==
  /\ blockCount = 2
  /\ hooks = <<"start", "block", "speech_start", "speech_end",
               "block", "speech_start">>

\* the processor waits for the engine's next block or for playback to finish
ProcessorWaiting == procPc \in {"executor", "speaking"} \/ loopBusy

\* C30: whenever the processor waits for the engine's next block or for
\* playback to finish, the pump can dequeue a fragment that is on the
\* hand-off queue and an armed debounce timer can fire.
C30_LoopNotBlocked ==
  ProcessorWaiting =>
    /\ audioQueue # <<>> => ENABLED Pump
    /\ \A u \in Users : userTimers[u] = "armed" => ENABLED LoopTimerFires(u)

\* the characters of a text that are not blanks
Letters(s) == SelectSeq(s, LAMBDA c : c # SPACE)

\* the buffer is over max_chunk_size once the block is added (line 224)
ForcedSplitDue ==
  /\ chunkerPc = "blocks"
  /\ blockPos <= Len(textBlocks)
  /\ ClassifyBlock(textBlocks[blockPos]) # "space"
  /\ Len(Strip(AppendBlock(buffer, textBlocks[blockPos]))) > maxChunkSize

\* C31: a forced split removes no text from the buffer without emitting it:
\* in a step of process_blocks whose buffer exceeds max_chunk_size, the
\* characters emitted so far followed by those of the buffer are, after the
\* step, what they were before it with the block's characters added.
C31_ForcedSplitKeepsText ==
  [][(ForcedSplitDue /\ blockPos' = blockPos + 1)
       => Letters(Concat(chunks')) \o Letters(buffer')
            = Letters(Concat(chunks)) \o Letters(buffer)
                \o Letters(textBlocks[blockPos])]_vars

\* the last word of a text without its punctuation (line 132)
LastWordBare(t) == SelectSeq(LastWord(Strip(t)), LAMBDA c : c \notin {DOT, COMMA})

\* C32: a chunk that process_blocks emits from the loop without a forced split
\* and without a strong terminator at its end has a final word of 4
\* characters or more, does not end with a weak terminator, and its last word
\* is no continuation word.
C32_EmittedOnlyWhenComplete ==
  [][(/\ blockPos' = blockPos + 1
      /\ ~ForcedSplitDue
      /\ chunks' # chunks
      /\ ~HasStrongSentenceEnding(chunks'[Len(chunks')]))
       => LET chunk == Strip(chunks'[Len(chunks')])
          IN /\ Len(LastWord(chunk)) >= 4
             /\ chunk[Len(chunk)] # COMMA
             /\ LastWordBare(chunk) \notin ContinuationWords]_vars

\* the trimmed buffer once the block the loop takes next is added
Appended == Strip(AppendBlock(buffer, textBlocks[blockPos]))

\* the loop adds a block that is not blank and no forced split is due
BlockAdded ==
  /\ chunkerPc = "blocks"
  /\ blockPos <= Len(textBlocks)
  /\ textBlocks[blockPos] # <<>>
  /\ ClassifyBlock(textBlocks[blockPos]) # "space"
  /\ ~ForcedSplitDue

\* C33: after an append, a buffer within max_chunk_size that has reached
\* min_chunk_size and ends with a strong terminator is emitted whole at that
\* step, and a buffer that ends with a strong terminator but is shorter than
\* min_chunk_size is not emitted.
C33_StrongEndingRule ==
  [][(BlockAdded /\ blockPos' = blockPos + 1 /\ HasStrongSentenceEnding(Appended))
       => IF Len(Appended) >= minChunkSize
          THEN chunks' = Append(chunks, Appended)
          ELSE chunks' = chunks]_vars

\* C34: every chunk that process_blocks emits from its loop, that is before
\* the stream is exhausted, has at most max_chunk_size characters.
C34_LoopChunksWithinMax ==
  \A i \in DOMAIN chunks :
    \/ finalYielded /\ i = Len(chunks)
    \/ Len(chunks[i]) <= maxChunkSize

\* a chunk has come out of a forced split: with min_chunk_size 30 the blocks
\* at hand are too short for the other rules
C34_Witness ==
  /\ minChunkSize = 30
  /\ maxChunkSize = 8
  /\ chunkerPc = "blocks"
  /\ chunks # <<>>
  /\ buffer # <<>>

\* ------------------------------------- speak_streaming with suspending hooks
\* The AudioManager on its own, called by one caller, one call after the
\* other, with hooks that may suspend (examples/websocket_integration.py sends
\* over a socket in on_speech_start) and a device whose calls may raise.
MaxSpeakCalls == 3

\* what speak_streaming leaves alone
SpeakFrame ==
  /\ UNCHANGED <<deferred, orphanTimers, voiceClient, audioQueue,
                 currentTextBlocks, captured, interrupts, intWaiting,
                 userBuffers, userTimers, finalizeTasks, responseQueue,
                 isProcessing, processingLock, procPc, curTurn, blockCount,
                 speakPhase, pendingAudio>>
  /\ UNCHANGED <<turnLog, handled, completed, engineRaised, streamEnded, adds,
                 tainted, epoch, fragEpoch, heldBack, queued, cleared, intLog>>
  /\ UNCHANGED <<chunkerVars, callVars, loopBusy, engineVars, streamVars>>

\* speak_streaming from its call to its first suspension.  deviceRaises: the
\* device raises in is_playing() or stop() (lines 113-115); suspends: the
\* on_speech_start hook suspends (line 131).  The previous task is done, so
\* lines 117-124 do not apply.
SpeakCall(deviceRaises, suspends) ==
  /\ speakPc = "idle"
  /\ speakCalls < MaxSpeakCalls
  /\ speakCalls' = speakCalls + 1
  /\ IF ~voiceClient
     THEN \* lines 106-108
          UNCHANGED <<speakPc, isSpeaking, speakingLock, speechTask, vcPlaying,
                      hooks>>
     ELSE IF deviceRaises
     THEN \* lines 139-147: the exception is logged, then the finally block
          /\ isSpeaking' = FALSE
          /\ hooks' = Append(hooks, "speech_end")
          /\ UNCHANGED <<speakPc, speakingLock, speechTask, vcPlaying>>
     ELSE /\ vcPlaying' = FALSE
          /\ isSpeaking' = TRUE
          /\ hooks' = Append(hooks, "speech_start")
          /\ speakingLock' = TRUE
          /\ IF suspends
             THEN /\ speakPc' = "hook"
                  /\ UNCHANGED speechTask
             ELSE /\ speakPc' = "await"
                  /\ speechTask' = "created"
  /\ SpeakFrame

\* the on_speech_start hook returns: lines 134-137
HookReturns ==
  /\ speakPc = "hook"
  /\ speakPc' = "await"
  /\ speechTask' = "created"
  /\ UNCHANGED <<speakCalls, isSpeaking, speakingLock, vcPlaying, hooks>>
  /\ SpeakFrame

\* the await of the speech task returns or raises: lines 141-147
SpeakReturns ==
  /\ speakPc = "await"
  /\ SpeechTaskAwaited
  /\ speakPc' = "idle"
  /\ isSpeaking' = FALSE
  /\ hooks' = Append(hooks, "speech_end")
  /\ speakingLock' = FALSE
  /\ UNCHANGED <<speakCalls, speechTask, vcPlaying>>
  /\ SpeakFrame

SpeakStep == \E deviceRaises, suspends \in BOOLEAN : SpeakCall(deviceRaises, suspends)

SpeakNext ==
  \/ Join
  \/ SpeakStep
  \/ HookReturns
  \/ SpeakReturns
  \/ SpeechTaskStarts
  \/ PlaybackEnds
  \/ SpeechTaskEnds
  \/ SpeechTaskCancelled
  \/ Interrupt
  \/ InterruptResumes

SpeakSpec == Init /\ [][SpeakNext]_vars

\* C35: while the speech task is waiting for the device and the device is
\* playing, is_speaking is true, whatever the interleaving of speak_streaming
\* and interrupt_and_clear.
C35_SpeakingWhilePlaying == (speechTask = "playing" /\ vcPlaying) => isSpeaking

\* the device plays the audio of a call whose flag an interrupt command reset
\* while the call was in its on_speech_start hook
C35_PlayingNotSpeaking ==
  /\ speechTask = "playing"
  /\ vcPlaying
  /\ ~isSpeaking
  /\ speakPc = "await"
  /\ interrupts > 0

\* C36: on_speech_start and on_speech_end alternate, on_speech_start first.
C36_HooksAlternate ==
  \A i \in DOMAIN hooks :
    IF i % 2 = 1 THEN hooks[i] = "speech_start" ELSE hooks[i] = "speech_end"

\* on_speech_end was fired for a call that never fired on_speech_start
C36_EndWithoutStart == speakCalls = 1 /\ hooks = <<"speech_end">>

\* ------------------------------------------------------- VertexAgentEngine
\* chat_stream, line 85
MaxRetries == 2
MaxPrompts == 2
MaxResponses == 2

\* the classes of prompt _get_fallback_response tells apart, in the order of
\* its tests (lines 176-191)
PromptKinds == <<"greeting", "question", "thanks", "farewell", "other">>
KindOf(p) == CHOOSE i \in DOMAIN PromptKinds : PromptKinds[i] = p

\* _rephrase_prompt (lines 158-170) wraps the prompt, or the part of it after
\* "dijo:", in words that hold none of the key words: the new prompt has the
\* class of the old one or, key words lost with the prefix, a later one
Rephrased(p) == {PromptKinds[i] : i \in KindOf(p)..Len(PromptKinds)}

\* the texts a response of the backend may carry: "", " ", "ab", " c"
ResponseTexts == {<<>>, <<SPACE>>, <<1, 2>>, <<SPACE, 3>>}

\* what send_message or the iteration of its stream may raise: the safety
\* filter, "model response did not complete", or anything else
ErrorKinds == {"safety", "incomplete", "other"}

\* fallback_responses (lines 66-72), the list of
\* _get_safety_fallback_response (lines 197-201) and the four fixed answers of
\* _get_fallback_response, each text abridged to a few letters
GenericFallbacks == <<<<1, 1>>, <<1, 2>>, <<1, 3>>, <<1, 4>>, <<1, 5>>>>
SafetyFallbacks == <<<<2, 1>>, <<2, 2>>, <<2, 3>>>>
ContextFallbacks == <<<<3, 1>>, <<3, 2>>, <<3, 3>>, <<3, 4>>>>

\* _get_generic_fallback_response and _get_safety_fallback_response
GenericFallbackResponse == GenericFallbacks[(fallbackIndex % Len(GenericFallbacks)) + 1]
SafetyFallbackResponse == SafetyFallbacks[(fallbackIndex % Len(SafetyFallbacks)) + 1]

\* _get_fallback_response: does it go on to the generic list, and its text
FallbackIsGeneric == prompt = "other"
FallbackResponse ==
  IF FallbackIsGeneric THEN GenericFallbackResponse ELSE ContextFallbacks[KindOf(prompt)]

\* a variant of line 96 that takes every response
AnyResponse(text) == TRUE

\* chat_stream, line 96: the response has a text that is not blank
HasText(text) == text # <<>> /\ Strip(text) # <<>>

Block(kind, text) == [attempt |-> attempt, kind |-> kind, text |-> text]

EngineFrame ==
  /\ UNCHANGED <<progVars, histVars, chunkerVars, callVars, loopBusy, speakVars,
                 streamVars>>
  /\ UNCHANGED chats

\* the generator yields its last block and returns
YieldAndReturn(kind, text, usesIndex) ==
  /\ yielded' = Append(yielded, Block(kind, text))
  /\ fallbackIndex' = IF usesIndex THEN fallbackIndex + 1 ELSE fallbackIndex
  /\ enginePc' = "done"
  /\ UNCHANGED <<prompt, attempt, hasContent, responses>>

\* the for loop goes on to its next attempt with newPrompt or, the range used
\* up, line 141
NextAttempt(newPrompt) ==
  IF attempt < MaxRetries
  THEN /\ attempt' = attempt + 1
       /\ prompt' = newPrompt
       /\ enginePc' = "send"
       /\ UNCHANGED <<hasContent, responses, yielded, fallbackIndex>>
  ELSE YieldAndReturn("generic", GenericFallbackResponse, TRUE)

\* the except block, lines 110-138
HandleError(kind) ==
  IF kind = "safety"
  THEN IF attempt < MaxRetries
       THEN \E p \in Rephrased(prompt) : NextAttempt(p)
       ELSE YieldAndReturn("safety", SafetyFallbackResponse, TRUE)
  ELSE IF kind = "incomplete"
  THEN IF attempt < MaxRetries
       THEN NextAttempt(prompt)
       ELSE YieldAndReturn("fallback", FallbackResponse, FallbackIsGeneric)
  ELSE IF attempt = MaxRetries
       THEN YieldAndReturn("generic", GenericFallbackResponse, TRUE)
       ELSE NextAttempt(prompt)

\* chat_stream is called and the generator is asked for its first block
ChatStream ==
  /\ enginePc \in {"idle", "done"}
  /\ chats < MaxPrompts
  /\ chats' = chats + 1
  /\ \E i \in DOMAIN PromptKinds : prompt' = PromptKinds[i]
  /\ attempt' = 0
  /\ yielded' = <<>>
  /\ sends' = 0
  /\ enginePc' = "send"
  /\ UNCHANGED <<hasContent, responses, fallbackIndex>>
  /\ UNCHANGED <<progVars, histVars, chunkerVars, callVars, loopBusy, speakVars,
                 streamVars>>

\* line 92: send_message returns a stream
SendMessage ==
  /\ enginePc = "send"
  /\ sends' = sends + 1
  /\ hasContent' = FALSE
  /\ responses' = 0
  /\ enginePc' = "stream"
  /\ UNCHANGED <<prompt, attempt, yielded, fallbackIndex>>
  /\ EngineFrame

\* line 92: send_message raises
SendRaises ==
  /\ enginePc = "send"
  /\ \E kind \in ErrorKinds :
       /\ HandleError(kind)
       /\ sends' = sends + 1
  /\ EngineFrame

\* lines 95-100: the stream delivers a response
NextResponse ==
  /\ enginePc = "stream"
  /\ responses < MaxResponses
  /\ responses' = responses + 1
  /\ \E text \in ResponseTexts :
       IF HasText(text)
       THEN /\ hasContent' = TRUE
            /\ yielded' = Append(yielded, Block("content", Strip(text)))
       ELSE UNCHANGED <<hasContent, yielded>>
  /\ UNCHANGED <<enginePc, prompt, attempt, sends, fallbackIndex>>
  /\ EngineFrame

\* lines 102-108: the stream is exhausted
StreamEnds ==
  /\ enginePc = "stream"
  /\ IF hasContent
     THEN /\ enginePc' = "done"
          /\ UNCHANGED <<prompt, attempt, hasContent, responses, yielded,
                         fallbackIndex>>
     ELSE IF attempt = MaxRetries
     THEN YieldAndReturn("fallback", FallbackResponse, FallbackIsGeneric)
     ELSE NextAttempt(prompt)
  /\ UNCHANGED sends
  /\ EngineFrame

\* the iteration of the stream raises
StreamRaises ==
  /\ enginePc = "stream"
  /\ \E kind \in ErrorKinds : HandleError(kind)
  /\ UNCHANGED sends
  /\ EngineFrame

EngineRun ==
  \/ SendMessage
  \/ SendRaises
  \/ NextResponse
  \/ StreamEnds
  \/ StreamRaises

EngineNext ==
  \/ ChatStream
  \/ EngineRun

EngineSpec == Init /\ [][EngineNext]_vars

\* the consumer iterates the generator to its end and the backend's streams
\* are finite
EngineLiveSpec == EngineSpec /\ WF_vars(EngineRun)

Done == enginePc = "done"
AtLeastOneBlock ==
  /\ sends <= MaxRetries + 1
  /\ yielded # <<>>
  /\ \A i \in DOMAIN yielded : yielded[i].text # <<>>

\* C37: a chat_stream call, once made, comes to its end whatever the backend
\* does, with at most MaxRetries + 1 send_message calls and at least one
\* block, and none of its blocks is empty.
C37_EndsWithABlock == (enginePc = "send") ~> (Done /\ AtLeastOneBlock)

\* three attempts failed and the only block is a fallback
C37_Witness ==
  /\ Done
  /\ sends = MaxRetries + 1
  /\ Len(yielded) = 1
  /\ yielded[1].kind = "safety"

\* C38: all the blocks of one chat_stream call come from one attempt, and no
\* fallback follows a block of content.
C38_BlocksOfOneAttempt ==
  \A i, j \in DOMAIN yielded :
    /\ yielded[i].attempt = yielded[j].attempt
    /\ (i < j /\ yielded[i].kind = "content") => yielded[j].kind = "content"

\* content of the first attempt is followed by content of the second
C38_TwoAttemptsYielded ==
  /\ Len(yielded) >= 2
  /\ yielded[1].kind = "content" /\ yielded[1].attempt = 0
  /\ yielded[2].kind = "content" /\ yielded[2].attempt = 1

\* ------------------------------------------------- GoogleTTSEngine.stream
\* the capacity of the queue (maxsize=240 at line 210), scaled down, and the
\* most chunks one synthesis delivers, more than the queue holds
QueueSlots == 3
MaxAudio == QueueSlots + 2

\* the end-of-stream sentinel (None); audio chunks are numbered from 1
Sentinel == 0

StreamFrame ==
  UNCHANGED <<progVars, histVars, chunkerVars, callVars, loopBusy, speakVars,
              engineVars>>

\* stream is called and iterated: lines 209-238, the thread is started and
\* the generator waits in queue.get()
StreamCall ==
  /\ streamPc = "idle"
  /\ streamPc' = "get"
  /\ workerPc' = "running"
  /\ UNCHANGED <<produced, callbacks, ttsQueue, received, dropped>>
  /\ StreamFrame

\* _worker, lines 224-227: a response with audio is handed to the loop
WorkerProduces ==
  /\ workerPc = "running"
  /\ produced < MaxAudio
  /\ produced' = produced + 1
  /\ callbacks' = Append(callbacks, produced + 1)
  /\ UNCHANGED <<streamPc, workerPc, ttsQueue, received, dropped>>
  /\ StreamFrame

\* _worker, lines 228-233: the synthesis ends or raises, and either way the
\* sentinel is handed to the loop
WorkerEnds ==
  /\ workerPc = "running"
  /\ workerPc' = "done"
  /\ callbacks' = Append(callbacks, Sentinel)
  /\ UNCHANGED <<streamPc, produced, ttsQueue, received, dropped>>
  /\ StreamFrame

\* asyncio.Queue(maxsize=240).put_nowait raises QueueFull on a full queue
QueueFull(q) == Len(q) >= QueueSlots

\* the loop runs one put_nowait handed over by call_soon_threadsafe; a
\* QueueFull it raises goes to the loop's exception handler
LoopRunsPut ==
  /\ callbacks # <<>>
  /\ callbacks' = Tail(callbacks)
  /\ IF QueueFull(ttsQueue)
     THEN /\ dropped' = Append(dropped, Head(callbacks))
          /\ UNCHANGED ttsQueue
     ELSE /\ ttsQueue' = Append(ttsQueue, Head(callbacks))
          /\ UNCHANGED dropped
  /\ UNCHANGED <<streamPc, workerPc, produced, received>>
  /\ StreamFrame

\* lines 237-242: the generator, asked for its next chunk, takes an item
ConsumerGets ==
  /\ streamPc = "get"
  /\ ttsQueue # <<>>
  /\ ttsQueue' = Tail(ttsQueue)
  /\ IF Head(ttsQueue) = Sentinel
     THEN /\ streamPc' = "ended"
          /\ UNCHANGED received
     ELSE /\ received' = Append(received, Head(ttsQueue))
          /\ UNCHANGED streamPc
  /\ UNCHANGED <<workerPc, produced, callbacks, dropped>>
  /\ StreamFrame

StreamRun ==
  \/ WorkerProduces
  \/ WorkerEnds
  \/ LoopRunsPut
  \/ ConsumerGets

StreamNext ==
  \/ StreamCall
  \/ StreamRun

StreamSpec == Init /\ [][StreamNext]_vars

\* the thread runs, the loop runs its callbacks and the player keeps asking
\* for audio
StreamLiveSpec ==
  /\ StreamSpec
  /\ WF_vars(StreamCall)
  /\ WF_vars(WorkerEnds)
  /\ WF_vars(LoopRunsPut)
  /\ WF_vars(ConsumerGets)

\* C39: a stream call comes to its end, with every chunk of the synthesis
\* yielded and none dropped, whatever the pace of worker and player.
C39_StreamEnds ==
  (streamPc = "get") ~>
    (streamPc = "ended" /\ Len(received) = produced /\ dropped = <<>>)

\* the sentinel found the queue full: the worker is done, nothing is left to
\* run and the generator waits in queue.get()
C39_SentinelDropped ==
  /\ streamPc = "get"
  /\ workerPc = "done"
  /\ callbacks = <<>>
  /\ ttsQueue = <<>>
  /\ \E i \in DOMAIN dropped : dropped[i] = Sentinel

====
